---------------------------- MODULE Spec2Model ----------------------------
(* A model of the phishing-email analysis pipeline: the risk aggregator     *)
(* (src/src/scoring.py), the URL analyser (src/src/urls.py), the attachment *)
(* inspector (src/src/attachments.py) and the header authenticator          *)
(* (src/src/headers.py).                                                    *)
EXTENDS Integers, Sequences, FiniteSets, TLC

VARIABLES
    pc,                  \* the stage the pipeline is at
    header_results,      \* dict returned by analyze_headers
    url_results,         \* list of URL findings handed to the scorer
    attachment_results,  \* list of attachment findings handed to the scorer
    weights,             \* config['scoring']['weights']
    score_results,       \* dict returned by calculate_risk_score, or None
    report,              \* the summary of the report built from score_results
    config,              \* the configuration document the entry point loaded
    entry,               \* the entry point running the pipeline: main.py or app.py
    msg,                 \* the parsed email message
    part_i,              \* analyze_attachments: position in msg.walk()
    attachments,         \* analyze_attachments: the list being built
    lookups,             \* what each network lookup of analyze_headers answered
    urls,                \* analyze_all_urls: the URLs submitted to the pool
    tasks,               \* analyze_all_urls: one _analyze_single_url call per URL
    results,             \* analyze_all_urls: the findings collected so far
    url_resolution_cache, \* _url_resolution_cache
    whois_cache,         \* _whois_cache
    resolved,            \* per URL, what the finished network resolutions returned
    looked_up            \* per hostname, what the finished whois lookups returned

score_vars ==
    <<header_results, url_results, attachment_results, weights, score_results, report>>
att_vars == <<msg, part_i, attachments>>
url_vars ==
    <<urls, tasks, results, url_resolution_cache, whois_cache, resolved, looked_up>>
vars == <<pc, score_vars, config, entry, att_vars, lookups, url_vars>>

(***************************************************************************)
(* Python values                                                           *)
(***************************************************************************)
None == "None"

\* dict.get(key, default)
Get(d, key, default) == IF key \in DOMAIN d THEN d[key] ELSE default

\* an empty dict / an empty list
EmptyDict == <<>>

\* min(a, b)
Min(a, b) == IF a <= b THEN a ELSE b

\* `x in list`
InList(x, list) == \E i \in DOMAIN list : list[i] = x

\* all sequences over S of length at most n
RECURSIVE SeqsUpTo(_, _)
SeqsUpTo(S, n) ==
    IF n = 0 THEN {<<>>}
    ELSE LET shorter == SeqsUpTo(S, n - 1)
         IN  shorter \cup {Append(s, x) : s \in {t \in shorter : Len(t) = n - 1}, x \in S}

(***************************************************************************)
(* RiskAggregator: src/src/scoring.py                                      *)
(***************************************************************************)
\* the cap applied to the sum of the contributions
ScoreCap == 100

\* total_score += w; score_breakdown.append({'reason': reason, 'score': w})
AddEntry(acc, reason, w) ==
    [acc EXCEPT !.total_score = @ + w,
                !.score_breakdown = Append(@, [reason |-> reason, score |-> w])]

\* a header rule fires on the result value 'fail' and on no other
IsFailTreatAllNonPass(result) == result # "pass"
IsFail(result) == result = "fail"

\* the header block of calculate_risk_score
ScoreHeaders(acc, h, header_weights) ==
    LET a1 == IF IsFail(Get(h, "spf_result", None))
              THEN AddEntry(acc, <<"SPF Check Failed">>, Get(header_weights, "spf_fail", 0))
              ELSE acc
        a2 == IF IsFail(Get(h, "dkim_result", None))
              THEN AddEntry(a1, <<"DKIM Check Failed">>, Get(header_weights, "dkim_fail", 0))
              ELSE a1
        a3 == IF IsFail(Get(h, "dmarc_result", None))
              THEN AddEntry(a2, <<"DMARC Check Failed">>, Get(header_weights, "dmarc_fail", 0))
              ELSE a2
    IN  IF Get(h, "from_return_path_mismatch", FALSE)
        THEN AddEntry(a3, <<"From/Return-Path Mismatch">>,
                      Get(header_weights, "from_return_path_mismatch", 0))
        ELSE a3

\* `original_url not in scored_urls`
NotYetScoredAlways(original_url, scored_urls) == TRUE
NotYetScored(original_url, scored_urls) == original_url \notin scored_urls

\* the two reason-specific scores of one URL finding
SpecificScoresFirstOnly(acc, reasons, original_url, url_weights) ==
    IF InList("USES_URL_SHORTENER", reasons)
    THEN AddEntry(acc, <<"URL is Shortened", original_url>>, Get(url_weights, "shortened_url", 0))
    ELSE IF InList("IP_ADDRESS_IN_HOST", reasons)
         THEN AddEntry(acc, <<"URL is IP Address", original_url>>,
                       Get(url_weights, "ip_address_url", 0))
         ELSE acc
SpecificScores(acc, reasons, original_url, url_weights) ==
    LET a1 == IF InList("USES_URL_SHORTENER", reasons)
              THEN AddEntry(acc, <<"URL is Shortened", original_url>>,
                            Get(url_weights, "shortened_url", 0))
              ELSE acc
    IN  IF InList("IP_ADDRESS_IN_HOST", reasons)
        THEN AddEntry(a1, <<"URL is IP Address", original_url>>,
                      Get(url_weights, "ip_address_url", 0))
        ELSE a1

\* scored_urls after one finding: scored_urls.add(original_url) sits inside
\* the `if` on is_suspicious
ScoredAfterAnyFinding(scored_urls, suspicious, original_url) == scored_urls \cup {original_url}
ScoredAfter(scored_urls, suspicious, original_url) ==
    IF suspicious THEN scored_urls \cup {original_url} ELSE scored_urls

\* one iteration of `for url in url_results`
ScoreUrl(acc, url, url_weights) ==
    LET reasons == Get(url, "suspicion_reasons", <<>>)
        original_url == Get(url, "original_url", None)
        suspicious == Get(url, "is_suspicious", FALSE)
        a0 == IF suspicious /\ NotYetScored(original_url, acc.scored_urls)
              THEN AddEntry(acc, <<"Suspicious URL", original_url>>,
                            Get(url_weights, "suspicious_domain", 0))
              ELSE acc
        a1 == [a0 EXCEPT !.scored_urls = ScoredAfter(@, suspicious, original_url)]
    IN  SpecificScores(a1, reasons, original_url, url_weights)

RECURSIVE ScoreUrls(_, _, _)
ScoreUrls(acc, findings, url_weights) ==
    IF findings = <<>> THEN acc
    ELSE ScoreUrls(ScoreUrl(acc, Head(findings), url_weights), Tail(findings), url_weights)

\* one iteration of `for att in attachment_results`
ScoreAttachment(acc, att, attachment_weights) ==
    LET a1 == IF Get(att, "is_dangerous", FALSE)
              THEN AddEntry(acc, <<"Dangerous Attachment Type", att.filename>>,
                            Get(attachment_weights, "dangerous_file_type", 0))
              ELSE acc
    IN  IF Get(att, "contains_executable_in_zip", FALSE)
        THEN AddEntry(a1, <<"Zip Contains Executable", att.filename>>,
                      Get(attachment_weights, "zip_with_executable", 0))
        ELSE a1

RECURSIVE ScoreAttachments(_, _, _)
ScoreAttachments(acc, atts, attachment_weights) ==
    IF atts = <<>> THEN acc
    ELSE ScoreAttachments(ScoreAttachment(acc, Head(atts), attachment_weights),
                          Tail(atts), attachment_weights)

\* final_score = min(total_score, 100)
FinalScore(total_score) == Min(total_score, ScoreCap)

calculate_risk_score(h, findings, atts, w) ==
    LET header_weights == Get(w, "headers", EmptyDict)
        url_weights == Get(w, "urls", EmptyDict)
        attachment_weights == Get(w, "attachments", EmptyDict)
        acc0 == [total_score |-> 0, score_breakdown |-> <<>>, scored_urls |-> {}]
        acc1 == ScoreHeaders(acc0, h, header_weights)
        acc2 == ScoreUrls(acc1, findings, url_weights)
        acc3 == ScoreAttachments(acc2, atts, attachment_weights)
    IN  [total_score |-> FinalScore(acc3.total_score), breakdown |-> acc3.score_breakdown]

(***************************************************************************)
(* Inputs of the scorer                                                    *)
(***************************************************************************)
\* the number of URL and attachment findings handed to one scoring call
MaxFindings == 2

\* values a header result field may carry (src/src/headers.py and pyspf)
ResultValues ==
    {"pass", "fail", "not_found", "not_checked", "dns_error", "error", "softfail", "neutral"}

\* the example weights of scoring.py's __main__ block
DummyWeights ==
    [headers |-> [spf_fail |-> 20, dkim_fail |-> 20, dmarc_fail |-> 25,
                  from_return_path_mismatch |-> 15],
     urls |-> [suspicious_domain |-> 30, shortened_url |-> 25, ip_address_url |-> 25],
     attachments |-> [dangerous_file_type |-> 40, zip_with_executable |-> 50]]

\* weights documents a configuration file may hold: complete, partial,
\* empty, and one that credits a passing signal with a negative weight
WeightConfigs ==
    { DummyWeights,
      EmptyDict,
      [headers |-> [spf_fail |-> 20]],
      [urls |-> [suspicious_domain |-> 30, ip_address_url |-> 25]],
      [headers |-> [spf_fail |-> 20, dkim_fail |-> 20, from_return_path_mismatch |-> -15],
       urls |-> [suspicious_domain |-> 30, shortened_url |-> -5],
       attachments |-> [dangerous_file_type |-> 40]] }

AllHeaderFindings ==
    [spf_result : ResultValues, dkim_result : ResultValues, dmarc_result : ResultValues,
     from_return_path_mismatch : BOOLEAN]

SampleHeaderFindings ==
    { [spf_result |-> "pass", dkim_result |-> "pass", dmarc_result |-> "pass",
       from_return_path_mismatch |-> FALSE],
      [spf_result |-> "fail", dkim_result |-> "pass", dmarc_result |-> "pass",
       from_return_path_mismatch |-> FALSE],
      [spf_result |-> "fail", dkim_result |-> "fail", dmarc_result |-> "fail",
       from_return_path_mismatch |-> TRUE],
      [spf_result |-> "fail", from_return_path_mismatch |-> TRUE] }

ScoredUrlNames == {"http://1.2.3.4/x", "http://bit.ly/xyz"}

UrlFindingShapes ==
    { <<FALSE, <<>>>>,
      <<TRUE, <<"SUSPICIOUS_KEYWORDS_IN_URL">>>>,
      <<TRUE, <<"USES_URL_SHORTENER">>>>,
      <<TRUE, <<"IP_ADDRESS_IN_HOST">>>>,
      <<TRUE, <<"USES_URL_SHORTENER", "IP_ADDRESS_IN_HOST", "NOT_USING_HTTPS">>>>,
      <<FALSE, <<"IP_ADDRESS_IN_HOST">>>> }

UrlFindingInputs ==
    { [original_url |-> u, is_suspicious |-> s[1], suspicion_reasons |-> s[2]] :
        u \in ScoredUrlNames, s \in UrlFindingShapes }

AttachmentFindingInputs ==
    [filename : {"invoice.exe"}, is_dangerous : BOOLEAN, contains_executable_in_zip : BOOLEAN]

ExampleIpFinding ==
    [original_url |-> "http://1.2.3.4/x", is_suspicious |-> TRUE,
     suspicion_reasons |-> <<"IP_ADDRESS_IN_HOST">>]

\* every header finding with a fixed pair of finding lists, and the sample
\* header findings with every pair of finding lists of MaxFindings entries
ScoreInputs ==
    { [h |-> h, u |-> u, a |-> <<>>] :
        h \in AllHeaderFindings, u \in {<<>>, <<ExampleIpFinding>>} }
    \cup
    { [h |-> h, u |-> p[1], a |-> p[2]] :
        h \in SampleHeaderFindings,
        p \in {q \in SeqsUpTo(UrlFindingInputs, MaxFindings)
                        \X SeqsUpTo(AttachmentFindingInputs, MaxFindings) :
                   Len(q[1]) + Len(q[2]) <= MaxFindings} }

\* the attachment inspector is not running
NoMessage == [multipart |-> FALSE, parts |-> <<>>]
AttIdle == msg = NoMessage /\ part_i = 0 /\ attachments = <<>>

\* the URL analyser is not running and its caches are empty
UrlIdle ==
    /\ urls = <<>>
    /\ tasks = <<>>
    /\ results = <<>>
    /\ url_resolution_cache = EmptyDict
    /\ whois_cache = EmptyDict
    /\ resolved = EmptyDict
    /\ looked_up = EmptyDict

\* no header lookup has run
NotRun == "not_run"
NoLookups == [dkim |-> NotRun, dmarc |-> NotRun, spf |-> NotRun]

\* main.py (the CLI pipeline) and app.py (the HTTP endpoint)
EntryPoints == {"main", "app"}

\* no report has been built
NoReport == [kind |-> "none", risk_score |-> 0, risk_level |-> "none"]

InitScore ==
    /\ pc = "score"
    /\ config = EmptyDict
    /\ entry \in EntryPoints
    /\ AttIdle
    /\ lookups = NoLookups
    /\ UrlIdle
    /\ \E inp \in ScoreInputs :
          /\ header_results = inp.h
          /\ url_results = inp.u
          /\ attachment_results = inp.a
    /\ weights \in WeightConfigs
    /\ score_results = None
    /\ report = NoReport

\* main.py / app.py: score_results = calculate_risk_score(...)
CalculateRiskScore ==
    /\ pc = "score"
    /\ score_results' =
          calculate_risk_score(header_results, url_results, attachment_results, weights)
    /\ pc' = "scored"
    /\ UNCHANGED <<header_results, url_results, attachment_results, weights, report, config,
                   entry, att_vars,
                   lookups, url_vars>>

\* app.py: 'risk_level' of final_report['summary']
EndpointRiskLevel(total_score) ==
    IF total_score >= 80 THEN "High"
    ELSE IF total_score >= 60 THEN "Medium"
    ELSE IF total_score >= 30 THEN "Low"
    ELSE "Very Low"

\* report.py generate_report: risk_level
ReportRiskLevel(score) ==
    IF score > 80 THEN "High"
    ELSE IF score > 50 THEN "Medium"
    ELSE IF score > 20 THEN "Low"
    ELSE "Very Low"

\* app.py analyze_email_endpoint: the summary of the JSON response
AnalyzeEmailEndpoint ==
    /\ pc = "scored"
    /\ entry = "app"
    /\ report' = [kind |-> "http", risk_score |-> score_results.total_score,
                  risk_level |-> EndpointRiskLevel(score_results.total_score)]
    /\ pc' = "reported"
    /\ UNCHANGED <<header_results, url_results, attachment_results, weights, score_results,
                   config, entry, att_vars, lookups, url_vars>>

\* main.py -> report.py generate_report: the summary of the written report
GenerateReport ==
    /\ pc = "scored"
    /\ entry = "main"
    /\ report' = [kind |-> "json", risk_score |-> score_results.total_score,
                  risk_level |-> ReportRiskLevel(score_results.total_score)]
    /\ pc' = "reported"
    /\ UNCHANGED <<header_results, url_results, attachment_results, weights, score_results,
                   config, entry, att_vars, lookups, url_vars>>

NextScore ==
    \/ CalculateRiskScore
    \/ AnalyzeEmailEndpoint
    \/ GenerateReport

SpecScore == InitScore /\ [][NextScore]_vars

(***************************************************************************)
(* Properties of the scorer                                                *)
(***************************************************************************)
Scored == pc = "scored"

\* how many breakdown entries carry `reason`
CountEntries(breakdown, reason) ==
    Cardinality({i \in DOMAIN breakdown : breakdown[i].reason = reason})

\* every breakdown entry with `reason` carries the score w
EntriesScore(breakdown, reason, w) ==
    \A i \in DOMAIN breakdown : breakdown[i].reason = reason => breakdown[i].score = w

\* how many URL findings name original_url u and satisfy P
CountFindings(u, P(_)) ==
    Cardinality({i \in DOMAIN url_results :
                    url_results[i].original_url = u /\ P(url_results[i])})

UrlEntryTexts == {"Suspicious URL", "URL is Shortened", "URL is IP Address"}
UrlEntries(breakdown) == SelectSeq(breakdown, LAMBDA e : e.reason[1] \in UrlEntryTexts)

\* C1: for every weights configuration and every combination of findings the
\* total_score returned by calculate_risk_score lies in 0..100.
C1_TotalScoreInRange ==
    Scored => score_results.total_score \in 0..ScoreCap

\* C2: in one call of calculate_risk_score the generic suspicious_domain
\* weight and its 'Suspicious URL' entry are added at most once per distinct
\* original_url (exactly once when some finding of that URL is suspicious),
\* also when the URL occurs in several findings or carries several reasons.
C2_SuspiciousDomainOncePerUrl ==
    Scored =>
        \A u \in ScoredUrlNames :
            /\ CountEntries(score_results.breakdown, <<"Suspicious URL", u>>)
                 = (IF CountFindings(u, LAMBDA f : f.is_suspicious) > 0 THEN 1 ELSE 0)
            /\ EntriesScore(score_results.breakdown, <<"Suspicious URL", u>>,
                            Get(Get(weights, "urls", EmptyDict), "suspicious_domain", 0))

\* C2 witness: a scored call whose findings name one original_url twice,
\* both suspicious and with different reasons, the second carrying several.
C2_Witness ==
    /\ Scored
    /\ Len(url_results) = 2
    /\ url_results[1].original_url = url_results[2].original_url
    /\ url_results[1].is_suspicious /\ url_results[2].is_suspicious
    /\ url_results[1].suspicion_reasons # url_results[2].suspicion_reasons
    /\ Len(url_results[2].suspicion_reasons) > 1
    /\ weights = DummyWeights

\* the header rules: result field, breakdown text, weight key
HeaderRules ==
    { <<"spf_result", "SPF Check Failed", "spf_fail">>,
      <<"dkim_result", "DKIM Check Failed", "dkim_fail">>,
      <<"dmarc_result", "DMARC Check Failed", "dmarc_fail">> }

\* C8: each header rule fires exactly when its result is 'fail', or when
\* from_return_path_mismatch is true, adding its configured weight (0 if
\* unconfigured) in exactly one breakdown entry; any other result value adds
\* no header entry. With spf_result 'fail' alone and weights {spf_fail: 20}
\* the breakdown's only header entry is ("SPF Check Failed", 20).
C8_HeaderRulesFireOnFailOnly ==
    Scored =>
        LET hw == Get(weights, "headers", EmptyDict)
            bd == score_results.breakdown
        IN  /\ \A r \in HeaderRules :
                  /\ CountEntries(bd, <<r[2]>>)
                       = (IF Get(header_results, r[1], None) = "fail" THEN 1 ELSE 0)
                  /\ EntriesScore(bd, <<r[2]>>, Get(hw, r[3], 0))
            /\ CountEntries(bd, <<"From/Return-Path Mismatch">>)
                 = (IF Get(header_results, "from_return_path_mismatch", FALSE) THEN 1 ELSE 0)
            /\ EntriesScore(bd, <<"From/Return-Path Mismatch">>,
                            Get(hw, "from_return_path_mismatch", 0))
            /\ ( /\ header_results = [spf_result |-> "fail", dkim_result |-> "pass",
                                      dmarc_result |-> "pass",
                                      from_return_path_mismatch |-> FALSE]
                 /\ weights = [headers |-> [spf_fail |-> 20]]
                 /\ url_results = <<>> /\ attachment_results = <<>> )
               => bd = <<[reason |-> <<"SPF Check Failed">>, score |-> 20]>>

\* C8 witness: a scored call where only DKIM failed among results that are
\* neither pass nor fail, under the full example weights.
C8_Witness ==
    /\ Scored
    /\ header_results = [spf_result |-> "dns_error", dkim_result |-> "fail",
                         dmarc_result |-> "softfail", from_return_path_mismatch |-> FALSE]
    /\ weights = DummyWeights
    /\ url_results = <<>>
    /\ score_results.breakdown = <<[reason |-> <<"DKIM Check Failed">>, score |-> 20]>>

\* C9: for every URL finding, whatever the suspicious_domain dedup did,
\* shortened_url is added once if its reasons include USES_URL_SHORTENER and
\* ip_address_url once if they include IP_ADDRESS_IN_HOST, each in an entry of
\* its own; one suspicious finding with reason IP_ADDRESS_IN_HOST under weights
\* {suspicious_domain: 30, ip_address_url: 25} contributes 30 + 25 = 55.
C9_SpecificReasonScoresPerFinding ==
    Scored =>
        LET uw == Get(weights, "urls", EmptyDict)
            bd == score_results.breakdown
        IN  /\ \A u \in ScoredUrlNames :
                  /\ CountEntries(bd, <<"URL is Shortened", u>>)
                       = CountFindings(u, LAMBDA f :
                                              InList("USES_URL_SHORTENER", f.suspicion_reasons))
                  /\ EntriesScore(bd, <<"URL is Shortened", u>>, Get(uw, "shortened_url", 0))
                  /\ CountEntries(bd, <<"URL is IP Address", u>>)
                       = CountFindings(u, LAMBDA f :
                                              InList("IP_ADDRESS_IN_HOST", f.suspicion_reasons))
                  /\ EntriesScore(bd, <<"URL is IP Address", u>>, Get(uw, "ip_address_url", 0))
            /\ ( /\ url_results = <<ExampleIpFinding>>
                 /\ weights = [urls |-> [suspicious_domain |-> 30, ip_address_url |-> 25]]
                 /\ attachment_results = <<>> )
               => /\ score_results.total_score = 55
                  /\ UrlEntries(bd)
                       = << [reason |-> <<"Suspicious URL", "http://1.2.3.4/x">>, score |-> 30],
                            [reason |-> <<"URL is IP Address", "http://1.2.3.4/x">>,
                             score |-> 25] >>

\* C9 witness: a scored call with two findings of one original_url, the
\* first suspicious for IP_ADDRESS_IN_HOST alone and the second carrying both
\* specific reasons, so the dedup skips the second while both are scored.
C9_Witness ==
    /\ Scored
    /\ Len(url_results) = 2
    /\ url_results[1] = ExampleIpFinding
    /\ url_results[2].original_url = "http://1.2.3.4/x"
    /\ url_results[2].is_suspicious
    /\ InList("USES_URL_SHORTENER", url_results[2].suspicion_reasons)
    /\ InList("IP_ADDRESS_IN_HOST", url_results[2].suspicion_reasons)
    /\ weights = DummyWeights
    /\ CountEntries(score_results.breakdown, <<"URL is IP Address", "http://1.2.3.4/x">>) = 2

(***************************************************************************)
(* AttachmentInspector: src/src/attachments.py                             *)
(***************************************************************************)
\* A file name is a sequence of tokens: name stems, the extension separator
\* ".", the directory separator "/" and extension words in either case.
DOT == "."
SEP == "/"

\* str.lower() on one token and on a name
LowerToken(t) ==
    CASE t = "EXE" -> "exe"
      [] t = "JS" -> "js"
      [] t = "ZIP" -> "zip"
      [] t = "Login" -> "login"
      [] OTHER -> t
Lower(name) == [i \in DOMAIN name |-> LowerToken(name[i])]

\* str.rfind: the last position of token t in name, 0 when absent
RFind(name, t) ==
    LET at == {i \in DOMAIN name : name[i] = t}
    IN  IF at = {} THEN 0 ELSE CHOOSE i \in at : \A j \in at : j <= i

\* os.path.splitext(name)[1]: from the last dot of the last path component,
\* unless only dots precede it in that component
SplitextExt(name) ==
    LET sepIndex == RFind(name, SEP)
        dotIndex == RFind(name, DOT)
    IN  IF dotIndex > sepIndex
           /\ \E i \in (sepIndex + 1)..(dotIndex - 1) : name[i] # DOT
        THEN SubSeq(name, dotIndex, Len(name))
        ELSE <<>>

\* set(list)
ToSet(list) == {list[i] : i \in DOMAIN list}

ZipExt == <<DOT, "zip">>

\* what zipfile.ZipFile(io.BytesIO(zip_data)) does with a payload that is no
\* readable archive: it raises
Corrupt == [readable |-> FALSE, names |-> <<>>]

\* the payload of a readable archive with the member names z.namelist()
Archive(names) == [readable |-> TRUE, names |-> names]

\* part.get_filename() of a part that carries no file name
NoFilename == <<>>

\* analysis['contains_executable_in_zip'] = True; analysis['is_dangerous'] = True
MarkExecutableInZipOnly(analysis) == [analysis EXCEPT !.contains_executable_in_zip = TRUE]
MarkExecutableInZip(analysis) ==
    [analysis EXCEPT !.contains_executable_in_zip = TRUE, !.is_dangerous = TRUE]

\* the try/except around the archive inspection: the outcome of one part is
\* a finding, or the exception when it is not caught
InspectZipUncaught(analysis, payload, dangerous_extensions) ==
    IF payload = Corrupt
    THEN [kind |-> "raise"]
    ELSE IF \E k \in DOMAIN payload.names :
                 Lower(SplitextExt(payload.names[k])) \in dangerous_extensions
         THEN [kind |-> "finding", analysis |-> MarkExecutableInZip(analysis)]
         ELSE [kind |-> "finding", analysis |-> analysis]
InspectZip(analysis, payload, dangerous_extensions) ==
    IF payload = Corrupt
    THEN [kind |-> "finding", analysis |-> analysis]
    ELSE IF \E k \in DOMAIN payload.names :
                 Lower(SplitextExt(payload.names[k])) \in dangerous_extensions
         THEN [kind |-> "finding", analysis |-> MarkExecutableInZip(analysis)]
         ELSE [kind |-> "finding", analysis |-> analysis]

\* part.get('Content-Disposition') and 'attachment' in part.get('Content-Disposition')
IsAttachmentPart(part) ==
    part.disposition # None /\ part.disposition = "attachment"

\* the body of `for part in msg.walk()`
AnalyzePart(part, dangerous_extensions) ==
    IF ~IsAttachmentPart(part) \/ part.filename = NoFilename
    THEN [kind |-> "skip"]
    ELSE LET file_ext == Lower(SplitextExt(part.filename))
             analysis == [filename |-> part.filename,
                          file_type |-> file_ext,
                          is_dangerous |-> file_ext \in dangerous_extensions,
                          contains_executable_in_zip |-> FALSE]
         IN  IF file_ext = ZipExt
             THEN InspectZip(analysis, part.payload, dangerous_extensions)
             ELSE [kind |-> "finding", analysis |-> analysis]

\* set(config.get('attachment_analysis', {}).get('dangerous_extensions', []))
DangerousExtensions(cfg) ==
    ToSet(Get(Get(cfg, "attachment_analysis", EmptyDict), "dangerous_extensions", <<>>))

\* the number of parts msg.walk() yields
MaxParts == 2

Name(stem, ext) == <<stem, DOT, ext>>

\* archive payloads: unreadable, or the member names of a readable archive
ZipPayloads ==
    { Corrupt,
      Archive(<<>>),
      Archive(<<Name("p", "js")>>),
      Archive(<<Name("r", "txt"), Name("p", "JS")>>),
      Archive(<<Name("r", "txt")>>),
      Archive(<<<<"d", SEP, DOT, "js">>>>),
      Archive(<<Name("inner", "zip")>>) }

Parts ==
    { [disposition |-> None, filename |-> NoFilename, payload |-> Corrupt],
      [disposition |-> "inline", filename |-> Name("a", "zip"),
       payload |-> Archive(<<Name("p", "js")>>)],
      [disposition |-> "attachment", filename |-> NoFilename, payload |-> Corrupt],
      [disposition |-> "attachment", filename |-> Name("invoice", "exe"), payload |-> Corrupt],
      [disposition |-> "attachment", filename |-> Name("invoice", "EXE"), payload |-> Corrupt],
      [disposition |-> "attachment", filename |-> Name("a", "txt"), payload |-> Corrupt],
      [disposition |-> "attachment", filename |-> <<DOT, "zip">>,
       payload |-> Archive(<<Name("p", "js")>>)],
      [disposition |-> "attachment", filename |-> Name("a", "ZIP"),
       payload |-> Archive(<<Name("p", "js")>>)] }
    \cup
    { [disposition |-> "attachment", filename |-> Name("a", "zip"), payload |-> z] :
        z \in ZipPayloads }

\* configuration documents: the example of attachments.py's __main__ block,
\* one that lists '.zip' itself, one written in upper case, empty ones
AttachmentConfigs ==
    { [attachment_analysis |->
          [dangerous_extensions |-> <<<<DOT, "exe">>, <<DOT, "bat">>, <<DOT, "js">>>>]],
      [attachment_analysis |-> [dangerous_extensions |-> <<<<DOT, "zip">>, <<DOT, "js">>>>]],
      [attachment_analysis |-> [dangerous_extensions |-> <<<<DOT, "JS">>>>]],
      [attachment_analysis |-> EmptyDict],
      EmptyDict }

\* the scorer is not running
ScoreIdle ==
    /\ header_results = EmptyDict
    /\ url_results = <<>>
    /\ attachment_results = <<>>
    /\ weights = EmptyDict
    /\ score_results = None
    /\ report = NoReport

InitAtt ==
    /\ pc = "attachments"
    /\ config \in AttachmentConfigs
    /\ entry \in EntryPoints
    /\ msg \in [multipart : BOOLEAN, parts : SeqsUpTo(Parts, MaxParts)]
    /\ part_i = 1
    /\ attachments = <<>>
    /\ ScoreIdle
    /\ lookups = NoLookups
    /\ UrlIdle

\* one iteration of `for part in msg.walk()` in a multipart message
AnalyzeNextPart ==
    /\ pc = "attachments"
    /\ msg.multipart
    /\ part_i <= Len(msg.parts)
    /\ LET out == AnalyzePart(msg.parts[part_i], DangerousExtensions(config))
       IN  /\ pc' = IF out.kind = "raise" THEN "attachments_raised" ELSE pc
           /\ attachments' = IF out.kind = "finding"
                             THEN Append(attachments, out.analysis)
                             ELSE attachments
    /\ part_i' = part_i + 1
    /\ UNCHANGED <<score_vars, config, entry, msg, lookups, url_vars>>

\* `return attachments`, bound by the caller to attachment_results
ReturnAttachments ==
    /\ pc = "attachments"
    /\ ~msg.multipart \/ part_i > Len(msg.parts)
    /\ attachment_results' = attachments
    /\ pc' = "attachments_done"
    /\ UNCHANGED <<header_results, url_results, weights, score_results, report, config,
                   entry, att_vars,
                   lookups, url_vars>>

NextAtt == AnalyzeNextPart \/ ReturnAttachments

SpecAtt == InitAtt /\ [][NextAtt]_vars

(***************************************************************************)
(* Properties of the attachment inspector                                  *)
(***************************************************************************)
\* the parts walked so far that carry an attachment disposition and a name
WalkedAttachmentParts ==
    IF msg.multipart
    THEN SelectSeq(SubSeq(msg.parts, 1, part_i - 1),
                   LAMBDA p : p.disposition = "attachment" /\ p.filename # NoFilename)
    ELSE <<>>

IsZipName(name) == Lower(SplitextExt(name)) = ZipExt

HasDangerousMember(payload, dangerous) ==
    /\ payload.readable
    /\ \E k \in DOMAIN payload.names : Lower(SplitextExt(payload.names[k])) \in dangerous

C7_CorruptZipIsAbsorbed ==
    /\ pc # "attachments_raised"
    /\ pc \in {"attachments", "attachments_done"} =>
          /\ Len(attachments) = Len(WalkedAttachmentParts)
          /\ \A j \in DOMAIN attachments :
                LET part == WalkedAttachmentParts[j]
                    f == attachments[j]
                IN  /\ f.filename = part.filename
                    /\ (IsZipName(part.filename) /\ part.payload = Corrupt)
                       => /\ ~f.contains_executable_in_zip
                          /\ f.is_dangerous
                               = (Lower(SplitextExt(part.filename))
                                    \in DangerousExtensions(config))
    /\ pc = "attachments_done" =>
          /\ attachment_results = attachments
          /\ msg.multipart => part_i = Len(msg.parts) + 1

\* C7 witness: analyze_attachments has returned two findings, the first for
\* a corrupt a.zip and the second for invoice.exe, flagged dangerous.
C7_Witness ==
    /\ pc = "attachments_done"
    /\ Len(msg.parts) = 2
    /\ msg.parts[1].filename = Name("a", "zip") /\ msg.parts[1].payload = Corrupt
    /\ Len(attachment_results) = 2
    /\ ~attachment_results[1].contains_executable_in_zip
    /\ ~attachment_results[1].is_dangerous
    /\ attachment_results[2].filename = Name("invoice", "exe")
    /\ attachment_results[2].is_dangerous

(***************************************************************************)
(* HeaderAuthenticator: src/src/headers.py                                 *)
(***************************************************************************)
\* A header value is absent, or holds the address email.utils.parseaddr
\* reads from it: a sequence of tokens, local part, "@", domain.
NoHeader == [present |-> FALSE, addr |-> <<>>]
Address(addr) == [present |-> TRUE, addr |-> addr]
AT == "@"

\* _get_domain_from_email: the text after the last '@', or None
GetDomainFromEmail(address) ==
    IF ~address.present THEN None
    ELSE IF InList(AT, address.addr) THEN address.addr[Len(address.addr)] ELSE None

\* a Received header: whether from_pattern matches it, the host it names,
\* and the address it names (malformed, private/loopback/reserved or public)
TrustedRelays ==
    {"google.com", "google.co.uk", "outlook.com", "office365.com", "mailgun.org",
     "sendgrid.net", "amazonses.com", "zohomail.com"}

\* host.endswith(trusted_domain) for some trusted relay; a host is its
\* prefix and its final registered name
IsTrustedHost(host) == host.tail \in TrustedRelays

\* _get_connecting_ip: the first public, untrusted address from the last
\* Received header backwards, or None
RECURSIVE GetConnectingIp(_)
GetConnectingIp(received) ==
    IF received = <<>> THEN None
    ELSE LET header == received[Len(received)]
             rest == SubSeq(received, 1, Len(received) - 1)
         IN  IF ~header.matches \/ header.ip_kind # "public" \/ IsTrustedHost(header.host)
             THEN GetConnectingIp(rest)
             ELSE header.ip

\* what dkim.verify(raw_email) does: returns True or False, or raises
DkimOutcomes ==
    {"valid", "invalid", "DKIMException", "Timeout", "NoNameservers", "Exception"}

\* the try/except of the DKIM verification
DkimResult(outcome) ==
    CASE outcome = "valid" -> "pass"
      [] outcome \in {"invalid", "DKIMException", "Timeout", "NoNameservers"} -> "fail"
      [] OTHER -> "error"

\* what dns.resolver.resolve('_dmarc.<domain>', 'TXT') does
DmarcOutcomes ==
    {"record_with_tag", "records_without_tag", "NoAnswer", "NXDOMAIN", "Timeout",
     "NoNameservers", "Exception"}

\* _check_dmarc
CheckDmarc(domain, outcome) ==
    IF domain = None THEN "not_found"
    ELSE CASE outcome = "record_with_tag" -> "pass"
           [] outcome = "records_without_tag" -> "fail"
           [] outcome \in {"NoAnswer", "NXDOMAIN"} -> "not_found"
           [] outcome \in {"Timeout", "NoNameservers"} -> "dns_error"
           [] OTHER -> "error"

\* what spf.check2 does: returns a disposition, or raises
SpfDispositions == {"pass", "fail", "softfail", "neutral", "none", "permerror", "temperror"}
SpfOutcomes == SpfDispositions \cup {"Timeout", "NoNameservers", "Exception"}

\* _check_spf
CheckSpf(ip, domain, sender_given, outcome) ==
    IF ip = None \/ domain = None \/ ~sender_given THEN "not_checked"
    ELSE CASE outcome \in SpfDispositions -> outcome
           [] outcome \in {"Timeout", "NoNameservers"} -> "dns_error"
           [] OTHER -> "error"

\* spf_sender = results['return_path'].strip('<>') is a non-empty string
SpfSenderGiven(return_path) == return_path.present /\ return_path.addr # <<>>

Host(prefix, tail) == [prefix |-> prefix, tail |-> tail]

ReceivedHeaders ==
    { [matches |-> FALSE, host |-> Host("", ""), ip_kind |-> "none", ip |-> None],
      [matches |-> TRUE, host |-> Host("mx1.", "a.example"), ip_kind |-> "public",
       ip |-> "203.0.113.7"],
      [matches |-> TRUE, host |-> Host("gw.", "b.example"), ip_kind |-> "public",
       ip |-> "198.51.100.9"],
      [matches |-> TRUE, host |-> Host("mail-sor-f41.", "google.com"), ip_kind |-> "public",
       ip |-> "209.85.220.41"],
      [matches |-> TRUE, host |-> Host("localhost", ""), ip_kind |-> "private",
       ip |-> "127.0.0.1"],
      [matches |-> TRUE, host |-> Host("bad", ""), ip_kind |-> "malformed", ip |-> "999"] }

\* the Received chains of the messages analysed
ReceivedChains ==
    {<<>>} \cup {<<r>> : r \in ReceivedHeaders}
    \cup {<<r1, r2>> : r1 \in {r \in ReceivedHeaders : r.ip_kind = "public"},
                       r2 \in {r \in ReceivedHeaders : r.ip_kind # "malformed"}}

HeaderMessages ==
    [from : {NoHeader, Address(<<"alice", AT, "a.example">>)},
     return_path : {NoHeader, Address(<<>>), Address(<<"alice", AT, "a.example">>),
                    Address(<<"bounce", AT, "b.example">>)},
     received : ReceivedChains]

InitHdr ==
    /\ pc = "dkim"
    /\ msg \in HeaderMessages
    /\ header_results = [spf_result |-> "not_checked", dkim_result |-> "not_found",
                         dmarc_result |-> "not_found", from_return_path_mismatch |-> FALSE,
                         from |-> msg.from, return_path |-> msg.return_path]
    /\ url_results = <<>>
    /\ attachment_results = <<>>
    /\ weights \in {DummyWeights, [headers |-> [spf_fail |-> 20]]}
    /\ score_results = None
    /\ report = NoReport
    /\ config = EmptyDict
    /\ entry \in EntryPoints
    /\ part_i = 0
    /\ attachments = <<>>
    /\ lookups = NoLookups
    /\ UrlIdle

\* 1. DKIM verification
VerifyDkim ==
    /\ pc = "dkim"
    /\ \E outcome \in DkimOutcomes :
          /\ lookups' = [lookups EXCEPT !.dkim = outcome]
          /\ header_results' = [header_results EXCEPT !.dkim_result = DkimResult(outcome)]
    /\ pc' = "mismatch"
    /\ UNCHANGED <<url_results, attachment_results, weights, score_results, report, config, entry,
                   att_vars,
                   url_vars>>

\* 2. From/Return-Path mismatch
CompareDomains ==
    /\ pc = "mismatch"
    /\ LET from_domain == GetDomainFromEmail(header_results.from)
           return_path_domain == GetDomainFromEmail(header_results.return_path)
       IN  header_results' =
              IF from_domain # None /\ return_path_domain # None
                 /\ from_domain # return_path_domain
              THEN [header_results EXCEPT !.from_return_path_mismatch = TRUE]
              ELSE header_results
    /\ pc' = "dmarc"
    /\ UNCHANGED <<url_results, attachment_results, weights, score_results, report, config, entry,
                   att_vars,
                   lookups, url_vars>>

\* 3. DMARC check, run when the From header yields a domain
DmarcLookup ==
    /\ pc = "dmarc"
    /\ GetDomainFromEmail(header_results.from) # None
    /\ \E outcome \in DmarcOutcomes :
          /\ lookups' = [lookups EXCEPT !.dmarc = outcome]
          /\ header_results' =
                [header_results EXCEPT
                    !.dmarc_result = CheckDmarc(GetDomainFromEmail(header_results.from), outcome)]
    /\ pc' = "spf"
    /\ UNCHANGED <<url_results, attachment_results, weights, score_results, report, config, entry,
                   att_vars,
                   url_vars>>

DmarcSkipped ==
    /\ pc = "dmarc"
    /\ GetDomainFromEmail(header_results.from) = None
    /\ pc' = "spf"
    /\ UNCHANGED <<score_vars, config, entry, att_vars, lookups, url_vars>>

\* `if connecting_ip and return_path_domain and spf_sender`
SpfInputsGiven ==
    /\ GetConnectingIp(msg.received) # None
    /\ GetDomainFromEmail(header_results.return_path) # None
    /\ SpfSenderGiven(header_results.return_path)

\* 4. SPF check, then `return results`
SpfLookup ==
    /\ pc = "spf"
    /\ SpfInputsGiven
    /\ \E outcome \in SpfOutcomes :
          /\ lookups' = [lookups EXCEPT !.spf = outcome]
          /\ header_results' =
                [header_results EXCEPT
                    !.spf_result = CheckSpf(GetConnectingIp(msg.received),
                                            GetDomainFromEmail(header_results.return_path),
                                            SpfSenderGiven(header_results.return_path),
                                            outcome)]
    /\ pc' = "score"
    /\ UNCHANGED <<url_results, attachment_results, weights, score_results, report, config, entry,
                   att_vars,
                   url_vars>>

SpfSkipped ==
    /\ pc = "spf"
    /\ ~SpfInputsGiven
    /\ pc' = "score"
    /\ UNCHANGED <<score_vars, config, entry, att_vars, lookups, url_vars>>

NextHdr ==
    \/ VerifyDkim
    \/ CompareDomains
    \/ DmarcLookup
    \/ DmarcSkipped
    \/ SpfLookup
    \/ SpfSkipped
    \/ CalculateRiskScore

SpecHdr == InitHdr /\ [][NextHdr]_vars

(***************************************************************************)
(* Properties of header analysis followed by scoring                       *)
(***************************************************************************)
\* a lookup that ended in a DNS timeout or with no reachable nameserver
InfrastructureFailure(outcome) == outcome \in {"Timeout", "NoNameservers", "temperror"}

\* C10: end to end, a DNS timeout or unreachable nameserver during the DKIM,
\* SPF or DMARC check is not reported as the authentication result 'fail'
\* and never adds the spf_fail / dkim_fail / dmarc_fail weight to the score.
C10_InfrastructureFailureAddsNoWeight ==
    Scored =>
        \A r \in {<<"dkim", "dkim_result", "DKIM Check Failed">>,
                   <<"dmarc", "dmarc_result", "DMARC Check Failed">>,
                   <<"spf", "spf_result", "SPF Check Failed">>} :
            InfrastructureFailure(lookups[r[1]])
               => /\ header_results[r[2]] # "fail"
                  /\ CountEntries(score_results.breakdown, <<r[3]>>) = 0

(***************************************************************************)
(* UrlRiskAnalyzer: src/src/urls.py                                        *)
(***************************************************************************)
\* _resolve_url(url, session, max_redirects=5)
max_redirects == 5
\* ThreadPoolExecutor(max_workers=10)
max_workers == 10
\* `if age < 30`
MinDomainAgeDays == 30
\* `if hostname.count('.') >= 4`
ExcessiveDots == 4

\* A URL as urlparse reads it: scheme, userinfo, host labels and the tokens
\* of path and query; wellformed is false when urlparse raises ValueError.
Url(scheme, user, host, path) ==
    [scheme |-> scheme, user |-> user, host |-> host, path |-> path, wellformed |-> TRUE]

\* Python's None where a URL is expected
NoUrl == [scheme |-> "", user |-> "", host |-> <<>>, path |-> <<>>, wellformed |-> FALSE]

\* labels joined by '.'
RECURSIVE Dotted(_)
Dotted(labels) ==
    IF Len(labels) <= 1 THEN labels
    ELSE <<Head(labels), DOT>> \o Dotted(Tail(labels))

\* urlparse(url).netloc
Netloc(url) == (IF url.user # "" THEN <<url.user, AT>> ELSE <<>>) \o Dotted(url.host)

\* urlparse(url).hostname, lower-cased; the empty sequence stands for None
Hostname(url) == Lower(url.host)

\* `s in t` on strings
IsSubSeq(sub, t) ==
    \E i \in 0..(Len(t) - Len(sub)) : SubSeq(t, i + 1, i + Len(sub)) = sub

\* any(shortener in parsed_original.netloc for shortener in shorteners)
IsShortener(url, shorteners) == \E sh \in shorteners : IsSubSeq(sh, Netloc(url))

\* re.match(ip_pattern, hostname)
DigitLabels == {"1", "2", "3", "4"}
IsIpHost(hostname) == Len(hostname) = 4 /\ \A i \in DOMAIN hostname : hostname[i] \in DigitLabels

\* url_config = config.get('url_analysis', {})
UrlConfig(cfg) == Get(cfg, "url_analysis", EmptyDict)
Shorteners(cfg) == ToSet(Get(UrlConfig(cfg), "url_shorteners", <<>>))
SuspiciousTlds(cfg) == ToSet(Get(UrlConfig(cfg), "suspicious_tlds", <<>>))
Keywords(cfg) == ToSet(Get(UrlConfig(cfg), "url_keywords", <<>>))

\* keyword_pattern.search(path) or keyword_pattern.search(query), ignoring case
KeywordMatch(url, keywords) ==
    \E k \in keywords : \E i \in DOMAIN url.path : LowerToken(url.path[i]) = LowerToken(k)

\* analysis['is_suspicious'] = True; analysis['suspicion_reasons'].append(reason)
Flag(analysis, reason) ==
    [analysis EXCEPT !.is_suspicious = TRUE, !.suspicion_reasons = Append(@, reason)]

\* analysis['suspicion_reasons'].append(reason), is_suspicious left as it is
NoteAndFlag(analysis, reason) == Flag(analysis, reason)
Note(analysis, reason) == [analysis EXCEPT !.suspicion_reasons = Append(@, reason)]

\* the analysis dict _analyze_single_url starts from; an optional integer
\* is a sequence of at most one number
NewAnalysis(url) ==
    [original_url |-> url, final_url |-> url, is_suspicious |-> FALSE,
     suspicion_reasons |-> <<>>, domain_age_days |-> <<>>]

\* hostname.count('.') >= 4: a hostname of n labels has n - 1 dots
HasExcessiveSubdomainsByLabels(hostname) == Len(hostname) >= ExcessiveDots
HasExcessiveSubdomains(hostname) == Len(hostname) - 1 >= ExcessiveDots

\* _analyze_single_url from the domain-age result to its return
PostWhois(analysis, age, reasons, cfg) ==
    LET final == analysis.final_url
        hostname == Hostname(final)
        a1 == [analysis EXCEPT !.suspicion_reasons = @ \o reasons]
        a2 == IF age # <<>>
              THEN LET a == [a1 EXCEPT !.domain_age_days = age]
                   IN  IF age[1] < MinDomainAgeDays THEN Flag(a, "DOMAIN_AGE_TOO_LOW") ELSE a
              ELSE a1
        a3 == IF hostname[Len(hostname)] \in SuspiciousTlds(cfg)
              THEN Flag(a2, "SUSPICIOUS_TLD") ELSE a2
        a4 == IF HasExcessiveSubdomains(hostname)
              THEN Flag(a3, "EXCESSIVE_SUBDOMAINS") ELSE a3
        a5 == IF KeywordMatch(final, Keywords(cfg))
              THEN Flag(a4, "SUSPICIOUS_KEYWORDS_IN_URL") ELSE a4
        a6 == IF final.scheme # "https" THEN Note(a5, "NOT_USING_HTTPS") ELSE a5
    IN  IF final.user # "" THEN Flag(a6, "USERNAME_IN_URL") ELSE a6

\* _analyze_single_url from the parse of final_url to the domain-age lookup:
\* the task raises, returns, goes on from a cached age, or waits for whois
AfterResolve(t, analysis, cache, cfg) ==
    LET final == analysis.final_url
        hostname == Hostname(final)
    IN  IF ~final.wellformed
        THEN [t EXCEPT !.pc = "raised", !.analysis = analysis]
        ELSE IF hostname = <<>>
        THEN [t EXCEPT !.pc = "done",
                       !.analysis = Flag(analysis, "INVALID_URL_NO_HOSTNAME")]
        ELSE LET a1 == IF IsIpHost(hostname)
                       THEN Flag(analysis, "IP_ADDRESS_IN_HOST") ELSE analysis
             IN  IF hostname \in DOMAIN cache
                 THEN [t EXCEPT !.pc = "done",
                                !.wres = cache[hostname],
                                !.analysis = PostWhois(a1, cache[hostname].age,
                                                       cache[hostname].reasons, cfg)]
                 ELSE [t EXCEPT !.pc = "whois", !.analysis = a1]

\* what whois.whois(domain) answers: a creation date (the age in days it
\* gives), no creation date, or an exception
WhoisOutcomes ==
    { [kind |-> "created", age |-> <<10>>], [kind |-> "created", age |-> <<400>>],
      [kind |-> "no_creation_date", age |-> <<>>], [kind |-> "exception", age |-> <<>>] }

\* _get_domain_age after the cache miss: the result and whether it is cached
GetDomainAge(outcome) ==
    CASE outcome.kind = "created" -> [age |-> outcome.age, reasons |-> <<>>, cached |-> TRUE]
      [] outcome.kind = "no_creation_date" ->
            [age |-> <<>>, reasons |-> <<"WHOIS_NO_CREATION_DATE">>, cached |-> FALSE]
      [] OTHER -> [age |-> <<>>, reasons |-> <<"WHOIS_LOOKUP_FAILED">>, cached |-> TRUE]

\* the (age, reasons) pair _get_domain_age returns, and the pair standing
\* for a call that never reached _get_domain_age
DomainAge(age, reasons) == [age |-> age, reasons |-> reasons]
NoDomainAge == DomainAge(<<>>, <<"not_called">>)

\* what _whois_cache[domain] is set to
WhoisCacheEntryPartial(age, reasons) == DomainAge(<<>>, reasons)
WhoisCacheEntry(age, reasons) == DomainAge(age, reasons)

\* what the finished whois lookups of a hostname have returned so far
LookedUp(hostname) == IF hostname \in DOMAIN looked_up THEN looked_up[hostname] ELSE {}

\* d[key] = value
Put(d, key, value) == [k \in DOMAIN d \cup {key} |-> IF k = key THEN value ELSE d[k]]

\* `for _ in range(max_redirects)` has run out after this many requests
LoopExhaustedLate(requests) == requests > max_redirects
LoopExhausted(requests) == requests >= max_redirects

\* what _url_resolution_cache[url] is set to
CacheValueOriginal(url, current_url) == url
CacheValue(url, current_url) == current_url

\* the return value of a _resolve_url call
NotCalled == [state |-> "not_called", final_url |-> NoUrl, reasons |-> <<>>]
Returned(final_url, reasons) ==
    [state |-> "returned", final_url |-> final_url, reasons |-> reasons]

\* what the network resolutions of url have returned so far, in the order
\* they returned
ResolvedOf(url) == IF url \in DOMAIN resolved THEN resolved[url] ELSE <<>>

\* a submitted _analyze_single_url call that no worker has started
NewTask(url) ==
    [pc |-> "queued", requests |-> 0, current_url |-> url, analysis |-> NewAnalysis(url),
     rres |-> NotCalled, wres |-> NoDomainAge, prior |-> <<>>, collected |-> FALSE]

\* `final_url, reasons = _resolve_url(...)`, extend, and `if final_url:`
TakeResolution(t, final_url, reasons) ==
    LET a1 == [t.analysis EXCEPT !.suspicion_reasons = @ \o reasons]
    IN  [t EXCEPT !.rres = Returned(final_url, reasons),
                  !.analysis = IF final_url # NoUrl
                               THEN [a1 EXCEPT !.final_url = final_url] ELSE a1]

\* the batch sizes and URLs analysed
MaxBatch == 2

ShortUrl == Url("http", "", <<"bit", "ly">>, <<"xyz">>)
LandingUrl == Url("https", "", <<"www", "example", "com">>, <<"home">>)
IpUrl == Url("http", "", <<"1", "2", "3", "4">>, <<"Login">>)
MalformedUrl ==
    [scheme |-> "http", user |-> "", host |-> <<"[", "bit", "ly">>, path |-> <<"x">>,
     wellformed |-> FALSE]

DeepUrl ==
    Url("https", "admin", <<"login", "secure", "account", "example", "xyz">>, <<"home">>)
PlainUrl == Url("http", "", <<"mail", "corp", "example", "com">>, <<"inbox">>)

NoHostUrl == Url("http", "", <<>>, <<"welcome">>)

BatchUrls == {ShortUrl, LandingUrl, MalformedUrl, DeepUrl, PlainUrl, NoHostUrl}

\* the Location headers a redirect response may carry
Locations == {LandingUrl, IpUrl}

\* what session.head(current_url, ...) answers: a redirect with a Location,
\* any other response, or a requests.RequestException
Responses ==
    {[kind |-> "redirect", location |-> l] : l \in Locations}
    \cup {[kind |-> "final", location |-> NoUrl], [kind |-> "error", location |-> NoUrl]}

UrlConfigs ==
    { [url_analysis |-> [url_shorteners |-> <<<<"bit", DOT, "ly">>>>,
                         suspicious_tlds |-> <<"xyz">>,
                         url_keywords |-> <<"login">>]] }

\* the config argument of analyze_all_urls: main.py hands over the whole
\* document, app.py hands over config.get('url_analysis', {})
UrlAnalysisArgument ==
    IF entry = "app" THEN Get(config, "url_analysis", EmptyDict) ELSE config

InitUrl ==
    /\ pc = "urls"
    /\ config \in UrlConfigs
    /\ entry \in EntryPoints
    /\ urls \in SeqsUpTo(BatchUrls, MaxBatch)
    /\ tasks = [i \in DOMAIN urls |-> NewTask(urls[i])]
    /\ results = <<>>
    /\ url_resolution_cache = EmptyDict
    /\ whois_cache = EmptyDict
    /\ resolved = EmptyDict
    /\ looked_up = EmptyDict
    /\ ScoreIdle
    /\ AttIdle
    /\ lookups = NoLookups

Running == {i \in DOMAIN tasks : tasks[i].pc \in {"resolving", "whois"}}

\* a pool worker takes a submitted call and runs it up to its first network
\* request, or to its end when it needs none
StartTask(i) ==
    /\ pc = "urls"
    /\ tasks[i].pc = "queued"
    /\ Cardinality(Running) < max_workers
    /\ LET url == urls[i]
           t == tasks[i]
       IN  tasks' = [tasks EXCEPT ![i] =
              IF ~url.wellformed
              THEN [t EXCEPT !.pc = "raised"]
              ELSE IF IsShortener(url, Shorteners(UrlAnalysisArgument))
              THEN LET t1 == [t EXCEPT !.analysis = Flag(@, "USES_URL_SHORTENER"),
                                       !.prior = ResolvedOf(url)]
                   IN  IF url \in DOMAIN url_resolution_cache
                       THEN AfterResolve(TakeResolution(t1, url_resolution_cache[url], <<>>),
                                         TakeResolution(t1, url_resolution_cache[url],
                                                        <<>>).analysis,
                                         whois_cache, UrlAnalysisArgument)
                       ELSE [t1 EXCEPT !.pc = "resolving"]
              ELSE AfterResolve(t, t.analysis, whois_cache, UrlAnalysisArgument)]
    /\ UNCHANGED <<pc, score_vars, config, entry, att_vars, lookups, urls, results,
                   url_resolution_cache, whois_cache, resolved, looked_up>>

\* one session.head request of _resolve_url and what follows its answer
HeadRequest(i) ==
    /\ pc = "urls"
    /\ tasks[i].pc = "resolving"
    /\ \E response \in Responses :
          LET url == urls[i]
              t == [tasks[i] EXCEPT !.requests = @ + 1]
              fail(reason) == [TakeResolution(t, NoUrl, <<reason>>) EXCEPT !.pc = "done"]
              record(task) == resolved' = Put(resolved, url, Append(ResolvedOf(url),
                                 [final_url |-> task.rres.final_url,
                                  reasons |-> task.rres.reasons]))
          IN  CASE response.kind = "redirect" /\ ~LoopExhausted(t.requests) ->
                     /\ tasks' = [tasks EXCEPT ![i] =
                                     [t EXCEPT !.current_url = response.location]]
                     /\ UNCHANGED <<url_resolution_cache, resolved>>
                [] response.kind = "redirect" /\ LoopExhausted(t.requests) ->
                     /\ tasks' = [tasks EXCEPT ![i] = fail("TOO_MANY_REDIRECTS")]
                     /\ record(fail("TOO_MANY_REDIRECTS"))
                     /\ UNCHANGED url_resolution_cache
                [] response.kind = "final" ->
                     LET done == TakeResolution(t, t.current_url, <<>>)
                     IN  /\ url_resolution_cache' =
                               Put(url_resolution_cache, url, CacheValue(url, t.current_url))
                         /\ tasks' = [tasks EXCEPT ![i] =
                                         AfterResolve(done, done.analysis, whois_cache,
                                                      UrlAnalysisArgument)]
                         /\ record(done)
                [] OTHER ->
                     /\ tasks' = [tasks EXCEPT ![i] = fail("URL_RESOLUTION_FAILED")]
                     /\ record(fail("URL_RESOLUTION_FAILED"))
                     /\ UNCHANGED url_resolution_cache
    /\ UNCHANGED <<pc, score_vars, config, entry, att_vars, lookups, urls, results, whois_cache,
                   looked_up>>

\* the answer of whois.whois and the rest of _analyze_single_url
WhoisAnswer(i) ==
    /\ pc = "urls"
    /\ tasks[i].pc = "whois"
    /\ \E outcome \in WhoisOutcomes :
          LET r == GetDomainAge(outcome)
              hostname == Hostname(tasks[i].analysis.final_url)
          IN  /\ whois_cache' =
                    IF r.cached
                    THEN Put(whois_cache, hostname, WhoisCacheEntry(r.age, r.reasons))
                    ELSE whois_cache
              /\ looked_up' = Put(looked_up, hostname,
                                  LookedUp(hostname) \cup {DomainAge(r.age, r.reasons)})
              /\ tasks' = [tasks EXCEPT ![i] =
                              [@ EXCEPT !.pc = "done",
                                        !.wres = DomainAge(r.age, r.reasons),
                                        !.analysis = PostWhois(@, r.age, r.reasons,
                                                               UrlAnalysisArgument)]]
    /\ UNCHANGED <<pc, score_vars, config, entry, att_vars, lookups, urls, results,
                   url_resolution_cache, resolved>>

\* future.result() inside try/except Exception: a result is appended, an
\* exception is logged
FutureOutcomeUncaught(t) == IF t.pc = "raised" THEN "propagated" ELSE "appended"
FutureOutcome(t) == IF t.pc = "raised" THEN "logged" ELSE "appended"

\* the futures `as_completed(future_to_url)` can yield next: any finished
\* one not yielded yet, whatever the order of submission
InSubmissionOrder(i) ==
    /\ tasks[i].pc \in {"done", "raised"}
    /\ ~tasks[i].collected
    /\ \A j \in DOMAIN tasks : j < i => tasks[j].collected
AsCompleted(i) ==
    /\ tasks[i].pc \in {"done", "raised"}
    /\ ~tasks[i].collected

\* one iteration of `for future in as_completed(future_to_url)`
Collect(i) ==
    /\ pc = "urls"
    /\ AsCompleted(i)
    /\ tasks' = [tasks EXCEPT ![i].collected = TRUE]
    /\ results' = IF FutureOutcome(tasks[i]) = "appended"
                  THEN Append(results, tasks[i].analysis) ELSE results
    /\ pc' = IF FutureOutcome(tasks[i]) = "propagated" THEN "urls_failed" ELSE pc
    /\ UNCHANGED <<score_vars, config, entry, att_vars, lookups, urls, url_resolution_cache,
                   whois_cache, resolved, looked_up>>

\* `return results`, bound by the caller to url_results
ReturnResults ==
    /\ pc = "urls"
    /\ \A i \in DOMAIN tasks : tasks[i].collected
    /\ url_results' = results
    /\ pc' = "urls_done"
    /\ UNCHANGED <<header_results, attachment_results, weights, score_results, report, config,
                   entry,
                   att_vars, lookups, url_vars>>

NextUrl ==
    \/ \E i \in DOMAIN tasks : StartTask(i)
    \/ \E i \in DOMAIN tasks : HeadRequest(i)
    \/ \E i \in DOMAIN tasks : WhoisAnswer(i)
    \/ \E i \in DOMAIN tasks : Collect(i)
    \/ ReturnResults

SpecUrl == InitUrl /\ [][NextUrl]_vars

\* Scheduling: a pool worker that can take a call does, the collecting loop
\* takes a finished future and returns when all are taken.  A head request
\* answers or times out (timeout=3).  The lookups of the first URL submitted
\* are left free never to answer: that URL hangs.
UrlFairness ==
    /\ \A i \in 1..MaxBatch :
          /\ WF_vars(i \in DOMAIN tasks /\ StartTask(i))
          /\ WF_vars(i \in DOMAIN tasks /\ Collect(i))
    /\ \A i \in 2..MaxBatch :
          /\ WF_vars(i \in DOMAIN tasks /\ HeadRequest(i))
          /\ WF_vars(i \in DOMAIN tasks /\ WhoisAnswer(i))
    /\ WF_vars(ReturnResults)

SpecUrlLive == InitUrl /\ [][NextUrl]_vars /\ UrlFairness

(***************************************************************************)
(* Properties of the URL analyser                                          *)
(***************************************************************************)
\* the calls whose resolution ran out of redirects
HitRedirectLimit(t) == InList("TOO_MANY_REDIRECTS", t.rres.reasons)

\* C3 (as stated): when a shortener's redirect chain exceeds the hop limit,
\* resolution made at most max_redirects requests and the finding has
\* final_url = None and reason TOO_MANY_REDIRECTS, no later heuristic applied.
C3_FindingHasNoFinalUrl ==
    \A i \in DOMAIN tasks :
        HitRedirectLimit(tasks[i]) =>
            /\ tasks[i].requests <= max_redirects
            /\ tasks[i].analysis.final_url = NoUrl
            /\ InList("TOO_MANY_REDIRECTS", tasks[i].analysis.suspicion_reasons)

\* C3 (amended): no resolution makes more than max_redirects requests; one
\* that runs out of redirects made exactly max_redirects, returns None with
\* the single reason TOO_MANY_REDIRECTS, and its finding keeps the original
\* URL as final_url, carries exactly the reasons USES_URL_SHORTENER and
\* TOO_MANY_REDIRECTS, is suspicious, and has no domain age: no later
\* heuristic was applied.
C3_TooManyRedirectsAborts ==
    /\ \A i \in DOMAIN tasks : tasks[i].requests <= max_redirects
    /\ \A i \in DOMAIN tasks :
          HitRedirectLimit(tasks[i]) =>
              /\ tasks[i].requests = max_redirects
              /\ tasks[i].pc = "done"
              /\ tasks[i].rres = Returned(NoUrl, <<"TOO_MANY_REDIRECTS">>)
              /\ tasks[i].analysis =
                    [original_url |-> urls[i], final_url |-> urls[i],
                     is_suspicious |-> TRUE,
                     suspicion_reasons |-> <<"USES_URL_SHORTENER", "TOO_MANY_REDIRECTS">>,
                     domain_age_days |-> <<>>]
    /\ pc = "urls_done" =>
          \A k \in DOMAIN url_results :
              InList("TOO_MANY_REDIRECTS", url_results[k].suspicion_reasons) =>
                  /\ url_results[k].final_url = url_results[k].original_url
                  /\ url_results[k].suspicion_reasons =
                        <<"USES_URL_SHORTENER", "TOO_MANY_REDIRECTS">>
                  /\ url_results[k].domain_age_days = <<>>

\* a batch has returned a finding whose resolution ran out of redirects
C3_Witness ==
    /\ pc = "urls_done"
    /\ \E i \in DOMAIN tasks : HitRedirectLimit(tasks[i]) /\ tasks[i].requests = max_redirects
    /\ \E k \in DOMAIN url_results :
          InList("TOO_MANY_REDIRECTS", url_results[k].suspicion_reasons)

\* the earlier resolutions of the same URL that succeeded
Successes(prior) == {k \in DOMAIN prior : prior[k].reasons = <<>>}

\* C4 (as stated): a resolution of a URL that was resolved before in the run
\* returns the final_url and the reason set of the first resolution, whatever
\* the first one's outcome.
C4_SecondResolutionSameAsFirst ==
    \A i \in DOMAIN tasks :
        (tasks[i].rres.state = "returned" /\ tasks[i].prior # <<>>) =>
            /\ tasks[i].rres.final_url = tasks[i].prior[1].final_url
            /\ ToSet(tasks[i].rres.reasons) = ToSet(tasks[i].prior[1].reasons)

\* C4 (amended): a resolution that starts after a successful resolution of
\* the same URL has returned makes no network request and returns, with no
\* reasons, the final_url of a successful earlier resolution (the first
\* one's when that is the only one); after a failed resolution the URL is
\* resolved over the network again and the outcome may differ.
C4_CachedResolutionRepeatsSuccess ==
    \A i \in DOMAIN tasks :
        LET t == tasks[i]
        IN  Successes(t.prior) # {} =>
                /\ t.requests = 0
                /\ t.pc # "resolving"
                /\ t.rres.state = "returned"
                /\ t.rres.reasons = <<>>
                /\ \E k \in Successes(t.prior) : t.rres.final_url = t.prior[k].final_url
                /\ t.analysis.final_url = t.rres.final_url

\* a second resolution of a URL was served after the first one succeeded
C4_Witness ==
    \E i \in DOMAIN tasks :
        /\ Successes(tasks[i].prior) # {}
        /\ tasks[i].rres.state = "returned"
        /\ tasks[i].rres.final_url = tasks[i].prior[1].final_url
        /\ tasks[i].collected

\* the submitted calls that raised
Raised == {i \in DOMAIN tasks : tasks[i].pc = "raised"}

CountOriginal(findings, url) ==
    Cardinality({k \in DOMAIN findings : findings[k].original_url = url})

\* C5: analyze_all_urls never fails because a call raised; what it returns
\* holds one finding for each input that did not raise, with that input as
\* original_url, so original_url is unique among the findings when the
\* inputs are distinct.
C5_FailuresAreIsolated ==
    /\ pc # "urls_failed"
    /\ pc = "urls_done" =>
          /\ Len(url_results) = Len(urls) - Cardinality(Raised)
          /\ \A i \in DOMAIN urls :
                CountOriginal(url_results, urls[i]) =
                    Cardinality({j \in DOMAIN urls \ Raised : urls[j] = urls[i]})
          /\ (\A i, j \in DOMAIN urls : urls[i] = urls[j] => i = j) =>
                \A k, l \in DOMAIN url_results :
                    url_results[k].original_url = url_results[l].original_url => k = l

\* a batch returned after one call raised and another produced a finding
C5_Witness ==
    /\ pc = "urls_done"
    /\ Raised # {}
    /\ Len(url_results) >= 1
    /\ \E i \in DOMAIN urls \ Raised : CountOriginal(url_results, urls[i]) = 1


\* _analyze_single_url run by itself, start to end, on the value its
\* resolution gave (res) and the value its domain-age lookup gave (who)
AnalyzeAlone(url, res, who, cfg) ==
    LET a0 == NewAnalysis(url)
        short == IsShortener(url, Shorteners(cfg))
        a1 == IF short
              THEN LET f == Flag(a0, "USES_URL_SHORTENER")
                   IN  [f EXCEPT !.suspicion_reasons = @ \o res.reasons,
                                 !.final_url = IF res.final_url # NoUrl
                                               THEN res.final_url ELSE @]
              ELSE a0
        hostname == Hostname(a1.final_url)
    IN  IF short /\ res.final_url = NoUrl THEN a1
        ELSE IF hostname = <<>> THEN Flag(a1, "INVALID_URL_NO_HOSTNAME")
        ELSE PostWhois(IF IsIpHost(hostname) THEN Flag(a1, "IP_ADDRESS_IN_HOST") ELSE a1,
                       who.age, who.reasons, cfg)

\* the values a finished whois lookup can leave in the cache
CacheableAges(hostname) == {w \in LookedUp(hostname) : w.reasons # <<"WHOIS_NO_CREATION_DATE">>}

\* C11: under every interleaving, each key of the resolution cache is bound
\* to the landing URL one finished successful resolution of that key
\* returned, each key of the domain-age cache to the whole (age, reasons)
\* pair one finished lookup of that key returned; a worker served from a
\* cache got such a value, and every finished worker's finding is the one
\* the analysis gives by itself on the lookup values that worker got.
C11_CachesHoldCompleteValues ==
    /\ \A u \in DOMAIN url_resolution_cache :
          \E k \in Successes(ResolvedOf(u)) :
              url_resolution_cache[u] = ResolvedOf(u)[k].final_url
    /\ \A h \in DOMAIN whois_cache : whois_cache[h] \in CacheableAges(h)
    /\ \A i \in DOMAIN tasks :
          /\ (tasks[i].rres.state = "returned" /\ tasks[i].requests = 0) =>
                \E k \in Successes(ResolvedOf(urls[i])) :
                    tasks[i].rres = Returned(ResolvedOf(urls[i])[k].final_url, <<>>)
          /\ tasks[i].wres # NoDomainAge =>
                tasks[i].wres \in LookedUp(Hostname(tasks[i].analysis.final_url))
          /\ tasks[i].pc = "done" =>
                tasks[i].analysis =
                    AnalyzeAlone(urls[i], tasks[i].rres, tasks[i].wres, UrlAnalysisArgument)

\* two workers resolved the same URL over the network and looked up the same
\* hostname, with different answers, and both returned
C11_Witness ==
    \E i, j \in DOMAIN tasks :
        /\ i # j
        /\ urls[i] = urls[j]
        /\ tasks[i].requests > 0 /\ tasks[j].requests > 0
        /\ tasks[i].pc = "done" /\ tasks[j].pc = "done"
        /\ tasks[i].rres.final_url = tasks[j].rres.final_url
        /\ tasks[i].wres \notin {NoDomainAge, tasks[j].wres}
        /\ tasks[j].wres # NoDomainAge
        /\ Cardinality(LookedUp(Hostname(tasks[i].analysis.final_url))) = 2


\* every network operation of the batch has answered or timed out
AllAnswered == \A i \in DOMAIN tasks : tasks[i].pc \in {"done", "raised"}

\* C12: while the lookups of the first URL hang, every other URL of the
\* batch is eventually analysed and its future collected; and once every
\* network operation has answered or timed out the batch returns.
C12_HangDoesNotBlockOthers ==
    /\ \A i \in 2..MaxBatch :
          (i \in DOMAIN tasks) ~> (i \in DOMAIN tasks /\ tasks[i].collected)
    /\ AllAnswered ~> (pc = "urls_done")

\* the first URL is still waiting for the network when a later one has been
\* analysed and collected
C12_Witness ==
    /\ Len(urls) >= 2
    /\ tasks[1].pc \in {"resolving", "whois"}
    /\ tasks[2].collected
    /\ tasks[2].requests > 0


\* C13: the risk level of every report built from a score is High from 80,
\* Medium from 60, Low from 30 and Very Low below, in the HTTP response and
\* in the written JSON report alike.
C13_ReportsCarryTheSameLevel ==
    report # NoReport =>
        /\ report.risk_score = score_results.total_score
        /\ report.risk_level =
              (IF report.risk_score >= 80 THEN "High"
               ELSE IF report.risk_score >= 60 THEN "Medium"
               ELSE IF report.risk_score >= 30 THEN "Low"
               ELSE "Very Low")


\* the orders a list can be handed over in
Perms(s) ==
    {[i \in DOMAIN s |-> s[p[i]]] :
        p \in {q \in [DOMAIN s -> DOMAIN s] : \A i, j \in DOMAIN s : q[i] = q[j] => i = j}}

\* the two breakdowns hold the same entries the same number of times
SameEntries(b1, b2) ==
    /\ Len(b1) = Len(b2)
    /\ \A e \in ToSet(b1) \cup ToSet(b2) :
          Cardinality({i \in DOMAIN b1 : b1[i] = e}) = Cardinality({i \in DOMAIN b2 : b2[i] = e})

\* the stage a breakdown entry comes from: 1 headers, 2 URLs, 3 attachments
Stage(item) ==
    IF item.reason[1] \in {"SPF Check Failed", "DKIM Check Failed", "DMARC Check Failed",
                           "From/Return-Path Mismatch"} THEN 1
    ELSE IF item.reason[1] \in {"Suspicious URL", "URL is Shortened", "URL is IP Address"}
    THEN 2 ELSE 3

\* C14: whatever the order of the URL findings and of the attachment
\* findings, calculate_risk_score gives the same total_score and the same
\* breakdown entries, each as many times; and the breakdown lists header
\* entries, then URL entries, then attachment entries.
C14_ScoreIsOrderIndependent ==
    Scored =>
        /\ \A u \in Perms(url_results) : \A a \in Perms(attachment_results) :
              LET other == calculate_risk_score(header_results, u, a, weights)
              IN  /\ other.total_score = score_results.total_score
                  /\ SameEntries(other.breakdown, score_results.breakdown)
        /\ \A i, j \in DOMAIN score_results.breakdown :
              i < j => Stage(score_results.breakdown[i]) <= Stage(score_results.breakdown[j])

\* a score computed from findings whose two orders differ, one of them
\* suspicious and one not, for the same URL, with entries of two stages
C14_Witness ==
    /\ Scored
    /\ Len(url_results) = 2
    /\ url_results[1] # url_results[2]
    /\ url_results[1].original_url = url_results[2].original_url
    /\ ~url_results[1].is_suspicious /\ url_results[2].is_suspicious
    /\ score_results.total_score > 0
    /\ \E i, j \in DOMAIN score_results.breakdown :
          Stage(score_results.breakdown[i]) < Stage(score_results.breakdown[j])


\* the redirect responses a resolution has received: each of its requests
\* but the one answered by the response or the exception that ended it
RedirectsReceived(t) ==
    IF t.rres.state = "returned" /\ t.requests > 0 /\ ~HitRedirectLimit(t)
    THEN t.requests - 1 ELSE t.requests

\* C15: a resolution follows up to max_redirects redirects: one that got a
\* non-redirect response after at most max_redirects redirects returns the
\* landing URL, recorded as final_url and cached, and TOO_MANY_REDIRECTS is
\* returned only by a resolution that received more than max_redirects
\* redirects.
C15_FollowsUpToTheHopLimit ==
    \A i \in DOMAIN tasks :
        LET t == tasks[i]
        IN  /\ (t.rres.state = "returned" /\ t.requests > 0 /\ t.rres.reasons = <<>>) =>
                  /\ RedirectsReceived(t) <= max_redirects
                  /\ t.rres.final_url = t.current_url
                  /\ t.analysis.final_url = t.current_url
                  /\ urls[i] \in DOMAIN url_resolution_cache
            /\ HitRedirectLimit(t) => RedirectsReceived(t) > max_redirects


\* the finished calls that reached the hostname heuristics
Analysed == {i \in DOMAIN tasks : tasks[i].pc = "done" /\ tasks[i].wres # NoDomainAge}

\* the number of dot-separated labels of the final hostname of call i
Labels(i) == Len(Hostname(tasks[i].analysis.final_url))

\* C16 (as stated): a final hostname of 4 or more labels gets
\* EXCESSIVE_SUBDOMAINS and is_suspicious, one of fewer than 4 labels never
\* gets EXCESSIVE_SUBDOMAINS.
C16_FourLabelsAreExcessive ==
    \A i \in Analysed :
        /\ Labels(i) >= 4 =>
              /\ InList("EXCESSIVE_SUBDOMAINS", tasks[i].analysis.suspicion_reasons)
              /\ tasks[i].analysis.is_suspicious
        /\ Labels(i) < 4 =>
              ~InList("EXCESSIVE_SUBDOMAINS", tasks[i].analysis.suspicion_reasons)

\* C16 (amended): a final hostname with 4 or more dots, that is 5 or more
\* labels, gets EXCESSIVE_SUBDOMAINS and is_suspicious; one with fewer than
\* 5 labels never gets EXCESSIVE_SUBDOMAINS, and neither does a URL whose
\* analysis stopped before the hostname heuristics.
C16_FiveLabelsAreExcessive ==
    /\ \A i \in Analysed :
          /\ Labels(i) >= 5 =>
                /\ InList("EXCESSIVE_SUBDOMAINS", tasks[i].analysis.suspicion_reasons)
                /\ tasks[i].analysis.is_suspicious
          /\ Labels(i) < 5 =>
                ~InList("EXCESSIVE_SUBDOMAINS", tasks[i].analysis.suspicion_reasons)
    /\ \A i \in DOMAIN tasks \ Analysed :
          ~InList("EXCESSIVE_SUBDOMAINS", tasks[i].analysis.suspicion_reasons)

\* one batch analysed a hostname of 4 labels without the reason and one of
\* 5 labels with it
C16_Witness ==
    \E i, j \in Analysed :
        /\ Labels(i) = 4 /\ ~IsIpHost(Hostname(tasks[i].analysis.final_url))
        /\ ~InList("EXCESSIVE_SUBDOMAINS", tasks[i].analysis.suspicion_reasons)
        /\ Labels(j) = 5
        /\ InList("EXCESSIVE_SUBDOMAINS", tasks[j].analysis.suspicion_reasons)


\* the reason codes that come with is_suspicious = True, and the soft ones
HardReasons ==
    {"USES_URL_SHORTENER", "INVALID_URL_NO_HOSTNAME", "IP_ADDRESS_IN_HOST",
     "DOMAIN_AGE_TOO_LOW", "SUSPICIOUS_TLD", "EXCESSIVE_SUBDOMAINS",
     "SUSPICIOUS_KEYWORDS_IN_URL", "USERNAME_IN_URL"}
SoftReasons == {"NOT_USING_HTTPS", "WHOIS_LOOKUP_FAILED", "WHOIS_NO_CREATION_DATE"}

SuspiciousIffHardReason(finding) ==
    finding.is_suspicious <=> (ToSet(finding.suspicion_reasons) \cap HardReasons # {})

\* C17: in every finding _analyze_single_url returns, is_suspicious is true
\* exactly when suspicion_reasons holds one of the hard reason codes; a
\* finding with soft codes only is not suspicious.
C17_SuspiciousIffHardReason ==
    /\ \A i \in DOMAIN tasks : tasks[i].pc = "done" =>
          /\ SuspiciousIffHardReason(tasks[i].analysis)
          /\ ToSet(tasks[i].analysis.suspicion_reasons) \subseteq SoftReasons =>
                ~tasks[i].analysis.is_suspicious
    /\ \A k \in DOMAIN results : SuspiciousIffHardReason(results[k])
    /\ \A k \in DOMAIN url_results : SuspiciousIffHardReason(url_results[k])

\* a batch returned one finding with soft codes only, not suspicious, and
\* one suspicious finding
C17_Witness ==
    /\ pc = "urls_done"
    /\ \E k, l \in DOMAIN url_results :
          /\ ToSet(url_results[k].suspicion_reasons) = {"WHOIS_LOOKUP_FAILED", "NOT_USING_HTTPS"}
          /\ ~url_results[k].is_suspicious
          /\ url_results[l].is_suspicious
          /\ Len(url_results[l].suspicion_reasons) >= 3


\* C18: the HTTP endpoint and the CLI pipeline analyse URLs under the same
\* configuration: with either entry point the findings carry the reasons the
\* configured shortener domains, suspicious TLDs and keywords give.
C18_EntryPointsApplyTheSameConfiguration ==
    \A i \in DOMAIN tasks :
        LET finding == tasks[i].analysis
            final == finding.final_url
        IN  tasks[i].pc = "done" =>
                /\ IsShortener(urls[i], Shorteners(config)) =>
                      InList("USES_URL_SHORTENER", finding.suspicion_reasons)
                /\ i \in Analysed =>
                      /\ (Hostname(final)[Len(Hostname(final))] \in SuspiciousTlds(config))
                            <=> InList("SUSPICIOUS_TLD", finding.suspicion_reasons)
                      /\ KeywordMatch(final, Keywords(config))
                            <=> InList("SUSPICIOUS_KEYWORDS_IN_URL", finding.suspicion_reasons)


=============================================================================
